---------------------------- MODULE Spec2Model ----------------------------
(***************************************************************************)
(* Model of hue_candle.py: the candle Flame simulator                      *)
(* (Flame.GetNextFlameBrightness) and the scheduler loop of main().        *)
(*                                                                         *)
(* Three specifications:                                                   *)
(*   SpecFlame  one Flame object, constructed by Flame.__init__ and then   *)
(*              called any number of times, with every outcome of the      *)
(*              random draws taken from the draw sets below;               *)
(*   Spec       main(): power-on, Flame creation and the tick loop, over   *)
(*              both values of SEND_TO_HUE and IN_SYNC, cut off after      *)
(*              MaxTicks ticks;                                            *)
(*   SpecLive   main() running without end, under weak fairness of its     *)
(*              steps, with smaller draw sets.                             *)
(***************************************************************************)
EXTENDS Integers, Sequences, FiniteSets

(***************************************************************************)
(* Module-level and class-level constants of hue_candle.py.                *)
(***************************************************************************)
LIGHTS == <<2, 4>>

MAX_BRIGHTNESS == 220

MIN_BRIGHTNESS == 100

WIND_VARIABILITY == 2

FLAME_AGILITY == 20

WIND_BASELINE == 5

\* Upper ends of random.randint(0, 1000) and random.randint(0, 255).
GUST_ROLL_MAX == 1000

BYTE_MAX == 255

\* r.status_code == 200 is the only success status.
HTTP_OK == 200

\* int(TRANSITION_TIME * 1000), TRANSITION_TIME = 0.005 seconds
TransitionMs == 5

Min(a, b) == IF a < b THEN a ELSE b

Max(a, b) == IF a > b THEN a ELSE b

(***************************************************************************)
(* Outcomes of the random draws.  Each set is a subset of the range the    *)
(* code draws from and holds both ends of the range and a value on each    *)
(* side of the threshold the draw is compared with.  Every other value of  *)
(* flame and wind is reached by the rise and settle steps.                 *)
(***************************************************************************)
\* random.randint(0, 1000), compared with WIND_VARIABILITY
GustRolls == {0, WIND_VARIABILITY, GUST_ROLL_MAX}

\* random.randint(0, 255), the new wind
WindDraws == {0, WIND_BASELINE + 1, BYTE_MAX}

\* random.randint(0, 255), compared with wind
KnockRolls == {0, WIND_BASELINE, BYTE_MAX}

\* random.randint(MIN_BRIGHTNESS, MAX_BRIGHTNESS), the new flame
FlameDraws == {MIN_BRIGHTNESS, MAX_BRIGHTNESS}

\* Stands for a draw the code does not make on this path (outside every range).
NoDraw == 0 - 1

(***************************************************************************)
(* class Flame                                                             *)
(***************************************************************************)
\* Flame.__init__
NewFlame ==
  [flame |-> MAX_BRIGHTNESS, flameprime |-> MAX_BRIGHTNESS, wind |-> WIND_BASELINE]

\* "if random.randint(0, 1000) < self.WIND_VARIABILITY"
Gusts(g) == g < WIND_VARIABILITY

\* Gust of wind: wind is reassigned when the gust roll g is low; w is the draw.
Gust(f, g, w) == IF Gusts(g) THEN [f EXCEPT !.wind = w] ELSE f

\* Mutant of Settle: the wind decays without regard to the baseline.
Settle_NoBaseline(f) == [f EXCEPT !.wind = @ - 1]

\* The wind settles towards its baseline.
Settle(f) == IF f.wind > WIND_BASELINE THEN [f EXCEPT !.wind = @ - 1] ELSE f

\* Mutant of Rise: the flame gets brighter without a ceiling.
Rise_NoCap(f) == [f EXCEPT !.flame = @ + 1]

\* Mutant of Rise: the flame does not get brighter.
Rise_Never(f) == f

\* The flame gets brighter until it reaches MAX_BRIGHTNESS.
Rise(f) == IF f.flame < MAX_BRIGHTNESS THEN [f EXCEPT !.flame = @ + 1] ELSE f

\* "if random.randint(0, 255) < self.wind"
Knocks(f, r) == r < f.wind

\* The wind knocks the flame to a random brightness n when the roll r is low.
Knock(f, r, n) == IF Knocks(f, r) THEN [f EXCEPT !.flame = n] ELSE f

\* Mutant of Inertia: the two clamps are missing.
Inertia_NoClamp(f) ==
  IF f.flame > f.flameprime
    THEN [f EXCEPT !.flameprime = @ + FLAME_AGILITY]
    ELSE [f EXCEPT !.flameprime = @ - FLAME_AGILITY]

\* Mutant of Inertia: flameprime is set to flame at once.
Inertia_Jump(f) == [f EXCEPT !.flameprime = f.flame]

\* Mutant of Inertia: ">=" for ">", so that flameprime rests on flame at the
\* ceiling.
Inertia_Steady(f) ==
  IF f.flame >= f.flameprime
    THEN [f EXCEPT !.flameprime = Min(@ + FLAME_AGILITY, MAX_BRIGHTNESS)]
    ELSE [f EXCEPT !.flameprime = Max(@ - FLAME_AGILITY, MIN_BRIGHTNESS)]

\* flameprime approaches flame by FLAME_AGILITY, clamped.
Inertia(f) ==
  IF f.flame > f.flameprime
    THEN [f EXCEPT !.flameprime = Min(@ + FLAME_AGILITY, MAX_BRIGHTNESS)]
    ELSE [f EXCEPT !.flameprime = Max(@ - FLAME_AGILITY, MIN_BRIGHTNESS)]

\* The Flame before the second pair of draws of a call.
BeforeKnock(f, g, w) == Rise(Settle(Gust(f, g, w)))

\* The Flame after one call with draws g, w, r, n; the call returns its flameprime.
GetNextFlameBrightness(f, g, w, r, n) == Inertia(Knock(BeforeKnock(f, g, w), r, n))

\* The draws one call can make from Flame f: w is drawn only after a low gust
\* roll, n only after a low knock roll.
Draws(f, G, W, R, N) ==
  UNION { UNION { UNION { { <<g, w, r, n>> :
            n \in IF Knocks(BeforeKnock(f, g, w), r) THEN N ELSE {NoDraw} } :
          r \in R } :
        w \in IF Gusts(g) THEN W ELSE {NoDraw} } :
      g \in G }

(***************************************************************************)
(* Scenario A of the specification: from flame = flameprime = 220 a first  *)
(* call whose knock sets flame to 100, then calls without gust or knock.   *)
(* ScenarioA is the sequence of flameprime values the specification        *)
(* expects, ScenarioAObserved the sequence the code produces.              *)
(***************************************************************************)
ScenarioA == <<220, 200, 180, 160, 140, 120, 100, 100>>

ScenarioAObserved == <<220, 200, 180, 160, 140, 120, 100, 120>>

(***************************************************************************)
(* main(): the draws of the Flames it drives, the statuses the bridge      *)
(* answers with, and the number of ticks explored.                         *)
(***************************************************************************)
TickGustRolls == {0, GUST_ROLL_MAX}

TickWindDraws == {BYTE_MAX}

TickKnockRolls == {0, BYTE_MAX}

TickFlameDraws == {MIN_BRIGHTNESS, MAX_BRIGHTNESS}

\* The draws of the Flames in the run that is not cut off after MaxTicks
\* (SpecLive): no gust, a knock to the ceiling or just below it.
LiveGustRolls == {GUST_ROLL_MAX}

LiveWindDraws == {BYTE_MAX}

LiveKnockRolls == {0, BYTE_MAX}

LiveFlameDraws == {MAX_BRIGHTNESS - 1, MAX_BRIGHTNESS}

\* r.status_code of a requests.put
Statuses == {HTTP_OK, 500}

\* Ticks of the "while True" loop that are explored.
MaxTicks == 3

\* "if r.status_code != 200"
Failed(status) == status # HTTP_OK

\* The ids in LIGHTS.
LightIds == {LIGHTS[k] : k \in DOMAIN LIGHTS}

\* "flames[LIGHTS[0]]": the Flame advanced in sync mode and in debug mode.
SyncFlameKey == LIGHTS[1]

\* Mutant of OwnFlameKey: every light reads the first light's Flame.
OwnFlameKey_First(k) == LIGHTS[1]

\* "flames[i]": the Flame advanced for the k-th light in independent mode.
OwnFlameKey(k) == LIGHTS[k]

\* Mutant of NextPowerOn: a failed power-on ends the loop.
NextPowerOn_Break(k, status) == IF Failed(status) THEN Len(LIGHTS) + 1 ELSE k + 1

\* The k-th pass of "for i in LIGHTS" (power-on) is followed by the next one,
\* whatever the status.
NextPowerOn(k, status) == k + 1

\* Mutant of NextDispatch: a failed brightness command is sent again.
NextDispatch_Retry(k, status) == IF Failed(status) THEN k ELSE k + 1

\* Mutant of NextDispatch: a failed brightness command ends the loop.
NextDispatch_Break(k, status) == IF Failed(status) THEN Len(LIGHTS) + 1 ELSE k + 1

\* The k-th pass of "for i in LIGHTS" (brightness) is followed by the next
\* one, whatever the status.
NextDispatch(k, status) == k + 1

\* percent = int(width * brightness / MAX_BRIGHTNESS), width = 51.0
BarWidth(b) == (51 * b) \div MAX_BRIGHTNESS

VARIABLES
  candle,     \* SpecFlame: the Flame object (flame, flameprime, wind)
  ret,        \* SpecFlame: <<v>> when the last call returned v, <<>> before any call
  gusted,     \* SpecFlame: the last call reassigned wind
  knocked,    \* SpecFlame: the last call reassigned flame
  scen,       \* SpecFlame: calls made so far along a Scenario A run, 0 outside one
  tied,       \* SpecFlame: in the last call flame equalled flameprime at the filter
  sendToHue,  \* SEND_TO_HUE
  inSync,     \* IN_SYNC
  pc,         \* main's position: "poweron", "create", "tick", "dispatch", "sleep"
  i,          \* index in LIGHTS of the running "for i in LIGHTS" loop
  flames,     \* the dict flames: light id -> Flame
  brightness, \* the local brightness: <<b>>, or <<>> while unbound
  power,      \* power-on commands put so far: [light, status]
  sent,       \* brightness commands put in the current tick: [light, bri, transitiontime, status]
  printed,    \* status codes printed at startup or in the current tick
  bar,        \* <<percent>> of the debug line last written to stdout
  calls,      \* GetNextFlameBrightness calls of the current tick: [key, value]
  tick,       \* ticks completed (time.sleep returned)
  failedTick, \* the first tick in which a brightness command failed, 0 if none
  forever,    \* FALSE: the run is cut off after MaxTicks ticks; TRUE: it is not
  twin        \* a second run of main() with the same draws and statuses of its
              \* own: [pc, i, flames, brightness, sent]

flameVars == <<candle, ret, gusted, knocked, scen, tied>>

mainVars ==
  <<sendToHue, inSync, pc, i, flames, brightness, power, sent, printed, bar,
    calls, tick, failedTick, forever, twin>>

vars == <<flameVars, mainVars>>

\* Flame.__init__ has run for the candle.
InitCandle ==
  /\ candle = NewFlame
  /\ ret = <<>>
  /\ gusted = FALSE
  /\ knocked = FALSE
  /\ scen = 0
  /\ tied = FALSE

\* main() is entered.
InitMain ==
  /\ pc = "poweron"
  /\ i = 1
  /\ flames = <<>>
  /\ brightness = <<>>
  /\ power = <<>>
  /\ sent = <<>>
  /\ printed = <<>>
  /\ bar = <<>>
  /\ calls = <<>>
  /\ tick = 0
  /\ failedTick = 0
  /\ twin = [pc |-> "poweron", i |-> 1, flames |-> <<>>, brightness |-> <<>>,
             sent |-> <<>>]

InitFlame ==
  /\ InitCandle
  /\ InitMain
  /\ sendToHue = TRUE
  /\ inSync = TRUE
  /\ forever = FALSE

Init ==
  /\ InitCandle
  /\ InitMain
  /\ sendToHue \in BOOLEAN
  /\ inSync \in BOOLEAN
  /\ forever = FALSE

\* The run that is not cut off.
InitLive ==
  /\ InitCandle
  /\ InitMain
  /\ sendToHue \in BOOLEAN
  /\ inSync \in BOOLEAN
  /\ forever = TRUE

\* The position in Scenario A after a call from Flame f to Flame after.
ScenarioStep(f, after, gust, knock) ==
  IF f.flame = ScenarioA[1] /\ f.flameprime = ScenarioA[1]
       /\ knock /\ after.flame = MIN_BRIGHTNESS
    THEN 1
    ELSE IF scen >= 1 /\ scen + 1 < Len(ScenarioA) /\ ~gust /\ ~knock
      THEN scen + 1
      ELSE 0

\* One call candle.GetNextFlameBrightness().
FlameCall ==
  /\ \E d \in Draws(candle, GustRolls, WindDraws, KnockRolls, FlameDraws) :
       LET after == GetNextFlameBrightness(candle, d[1], d[2], d[3], d[4])
           gust == Gusts(d[1])
           knock == Knocks(BeforeKnock(candle, d[1], d[2]), d[3])
       IN
         /\ candle' = after
         /\ ret' = <<after.flameprime>>
         /\ gusted' = gust
         /\ knocked' = knock
         /\ scen' = ScenarioStep(candle, after, gust, knock)
         /\ tied' = (after.flame = candle.flameprime)
  /\ UNCHANGED mainVars

NextFlame == FlameCall

SpecFlame == InitFlame /\ [][NextFlame]_vars

(***************************************************************************)
(* main()                                                                  *)
(***************************************************************************)
\* Mutant of PerLightCall: the loop calls a Flame for every light in any mode.
PerLightCall_Always == TRUE

\* "if not IN_SYNC:" inside the brightness loop.
PerLightCall == ~inSync

\* Mutant of TurnsLightsOn: the power-on loop runs whatever SEND_TO_HUE is.
TurnsLightsOn_Always == TRUE

\* "if SEND_TO_HUE:" before the power-on loop.
TurnsLightsOn == sendToHue

\* "if SEND_TO_HUE:" in the loop body.
SendsBrightness == sendToHue

\* The draws a call on flames[key] can make in a tick.
TickDraws(key) ==
  IF forever
    THEN Draws(flames[key], LiveGustRolls, LiveWindDraws, LiveKnockRolls,
               LiveFlameDraws)
    ELSE Draws(flames[key], TickGustRolls, TickWindDraws, TickKnockRolls,
               TickFlameDraws)

\* The dict fs after fs[key].GetNextFlameBrightness() with draws d.
AdvanceIn(fs, key, d) ==
  [fs EXCEPT ![key] = GetNextFlameBrightness(@, d[1], d[2], d[3], d[4])]

\* flames after flames[key].GetNextFlameBrightness() with draws d.
Advance(key, d) == AdvanceIn(flames, key, d)

\* The ticks counted after one more; the run that is not cut off stops
\* counting at MaxTicks.
CountTick(t) == IF forever /\ t >= MaxTicks THEN t ELSE t + 1

(***************************************************************************)
(* The steps of the second run (twin): the same statements with the same   *)
(* draws d and a status of its own.                                        *)
(***************************************************************************)
TwinPowerOn(t, status) ==
  IF NextPowerOn(t.i, status) <= Len(LIGHTS)
    THEN [t EXCEPT !.i = NextPowerOn(t.i, status)]
    ELSE [t EXCEPT !.i = 1, !.pc = "create"]

TwinTickBegin(t, d) ==
  LET fs == IF inSync THEN AdvanceIn(t.flames, SyncFlameKey, d) ELSE t.flames
  IN [t EXCEPT !.flames = fs,
               !.brightness = IF inSync THEN <<fs[SyncFlameKey].flameprime>> ELSE @,
               !.sent = <<>>,
               !.i = 1,
               !.pc = "dispatch"]

TwinDispatch(t, d, status) ==
  LET fs == IF PerLightCall THEN AdvanceIn(t.flames, OwnFlameKey(t.i), d)
                            ELSE t.flames
      b == IF PerLightCall THEN <<fs[OwnFlameKey(t.i)].flameprime>>
                           ELSE t.brightness
      last == NextDispatch(t.i, status) > Len(LIGHTS)
  IN [t EXCEPT !.flames = fs,
               !.brightness = b,
               !.sent = Append(@, [light |-> LIGHTS[t.i], bri |-> b[1]]),
               !.i = IF last THEN 1 ELSE NextDispatch(t.i, status),
               !.pc = IF last THEN "sleep" ELSE "dispatch"]

TwinDebugTick(t, d) ==
  LET fs == AdvanceIn(t.flames, SyncFlameKey, d)
  IN [t EXCEPT !.flames = fs,
               !.brightness = <<fs[SyncFlameKey].flameprime>>,
               !.pc = "sleep"]

\* "if SEND_TO_HUE:" is false: no light is turned on.
SkipPowerOn ==
  /\ pc = "poweron"
  /\ ~TurnsLightsOn
  /\ pc' = "create"
  /\ twin' = [twin EXCEPT !.pc = "create"]
  /\ UNCHANGED flameVars
  /\ UNCHANGED <<sendToHue, inSync, forever, i, flames, brightness, power,
                 sent, printed, bar, calls, tick, failedTick>>

\* One pass of the power-on loop: put {'on': True} to LIGHTS[i], print a
\* status other than 200.
PowerOn ==
  /\ pc = "poweron"
  /\ TurnsLightsOn
  /\ i <= Len(LIGHTS)
  /\ \E status \in Statuses :
       /\ power' = Append(power, [light |-> LIGHTS[i], status |-> status])
       /\ printed' = IF Failed(status) THEN Append(printed, status) ELSE printed
       /\ IF NextPowerOn(i, status) <= Len(LIGHTS)
            THEN /\ i' = NextPowerOn(i, status)
                 /\ pc' = "poweron"
            ELSE /\ i' = 1
                 /\ pc' = "create"
  /\ \E status2 \in Statuses : twin' = TwinPowerOn(twin, status2)
  /\ UNCHANGED flameVars
  /\ UNCHANGED <<sendToHue, inSync, forever, flames, brightness, sent, bar,
                 calls, tick, failedTick>>

\* "Create a Flame for each light."
CreateFlames ==
  /\ pc = "create"
  /\ flames' = [l \in LightIds |-> NewFlame]
  /\ pc' = "tick"
  /\ twin' = [twin EXCEPT !.flames = [l \in LightIds |-> NewFlame], !.pc = "tick"]
  /\ UNCHANGED flameVars
  /\ UNCHANGED <<sendToHue, inSync, forever, i, brightness, power, sent,
                 printed, bar, calls, tick, failedTick>>

\* Top of the loop body with SEND_TO_HUE: in sync mode the one shared call.
TickBegin ==
  /\ pc = "tick"
  /\ SendsBrightness
  /\ forever \/ tick < MaxTicks
  /\ IF inSync
       THEN \E d \in TickDraws(SyncFlameKey) :
              /\ flames' = Advance(SyncFlameKey, d)
              /\ brightness' = <<flames'[SyncFlameKey].flameprime>>
              /\ calls' = <<[key |-> SyncFlameKey,
                             value |-> flames'[SyncFlameKey].flameprime]>>
              /\ twin' = TwinTickBegin(twin, d)
       ELSE /\ calls' = <<>>
            /\ twin' = TwinTickBegin(twin, <<>>)
            /\ UNCHANGED <<flames, brightness>>
  /\ sent' = <<>>
  /\ printed' = <<>>
  /\ i' = 1
  /\ pc' = "dispatch"
  /\ UNCHANGED flameVars
  /\ UNCHANGED <<sendToHue, inSync, forever, power, bar, tick, failedTick>>

\* One pass of the brightness loop for LIGHTS[i]: in independent mode the
\* call on the light's own Flame, then the put of 'bri' and 'transitiontime',
\* and the print of a status other than 200.
Dispatch ==
  /\ pc = "dispatch"
  /\ i <= Len(LIGHTS)
  /\ \E status2 \in Statuses :
       IF PerLightCall
         THEN \E d \in TickDraws(OwnFlameKey(i)) :
                /\ flames' = Advance(OwnFlameKey(i), d)
                /\ brightness' = <<flames'[OwnFlameKey(i)].flameprime>>
                /\ calls' = Append(calls, [key |-> OwnFlameKey(i),
                                           value |-> flames'[OwnFlameKey(i)].flameprime])
                /\ twin' = TwinDispatch(twin, d, status2)
         ELSE /\ twin' = TwinDispatch(twin, <<>>, status2)
              /\ UNCHANGED <<flames, brightness, calls>>
  /\ \E status \in Statuses :
       /\ sent' = Append(sent, [light |-> LIGHTS[i], bri |-> brightness'[1],
                                transitiontime |-> TransitionMs,
                                status |-> status])
       /\ printed' = IF Failed(status) THEN Append(printed, status) ELSE printed
       /\ failedTick' = IF Failed(status) /\ failedTick = 0
                          THEN tick + 1 ELSE failedTick
       /\ IF NextDispatch(i, status) <= Len(LIGHTS)
            THEN /\ i' = NextDispatch(i, status)
                 /\ pc' = "dispatch"
            ELSE /\ i' = 1
                 /\ pc' = "sleep"
  /\ UNCHANGED flameVars
  /\ UNCHANGED <<sendToHue, inSync, forever, power, bar, tick>>

\* Loop body without SEND_TO_HUE: advance flames[LIGHTS[0]] and write the bar.
DebugTick ==
  /\ pc = "tick"
  /\ ~SendsBrightness
  /\ forever \/ tick < MaxTicks
  /\ \E d \in TickDraws(SyncFlameKey) :
       /\ flames' = Advance(SyncFlameKey, d)
       /\ brightness' = <<flames'[SyncFlameKey].flameprime>>
       /\ calls' = <<[key |-> SyncFlameKey,
                      value |-> flames'[SyncFlameKey].flameprime]>>
       /\ twin' = TwinDebugTick(twin, d)
  /\ bar' = <<BarWidth(brightness'[1])>>
  /\ pc' = "sleep"
  /\ UNCHANGED flameVars
  /\ UNCHANGED <<sendToHue, inSync, forever, i, power, sent, printed,
                 tick, failedTick>>

\* time.sleep(TRANSITION_TIME) returns.
Sleep ==
  /\ pc = "sleep"
  /\ tick' = CountTick(tick)
  /\ pc' = "tick"
  /\ twin' = [twin EXCEPT !.pc = "tick"]
  /\ UNCHANGED flameVars
  /\ UNCHANGED <<sendToHue, inSync, forever, i, flames, brightness, power,
                 sent, printed, bar, calls, failedTick>>

Next ==
  \/ SkipPowerOn
  \/ PowerOn
  \/ CreateFlames
  \/ TickBegin
  \/ Dispatch
  \/ DebugTick
  \/ Sleep

Spec == Init /\ [][Next]_vars

\* main() runs in one thread and every call it makes returns: a step that
\* can be taken is taken.
SpecLive == InitLive /\ [][Next]_vars /\ WF_vars(Next)

Brightnesses == MIN_BRIGHTNESS .. MAX_BRIGHTNESS

Abs(x) == IF x < 0 THEN 0 - x ELSE x

\* The last call made neither a gust nor a knock.
Quiet == ~gusted /\ ~knocked

(***************************************************************************)
(* Claims about the Flame, checked under SpecFlame.                        *)
(***************************************************************************)

\* C1: every value GetNextFlameBrightness returns is in
\* [MIN_BRIGHTNESS, MAX_BRIGHTNESS], and so is flameprime after every call.
C1_BrightnessInRange ==
  /\ candle.flameprime \in Brightnesses
  /\ \A k \in DOMAIN ret : ret[k] \in Brightnesses

\* A call that knocked flame to the floor while flameprime was at the floor
\* has returned the floor: the lower clamp has acted.
C1_Witness ==
  /\ knocked
  /\ candle.flame = MIN_BRIGHTNESS
  /\ candle.flameprime = MIN_BRIGHTNESS
  /\ ret = <<MIN_BRIGHTNESS>>

\* C2: wind is in [0, 255] in every reachable Flame state.
C2_WindInRange == candle.wind \in 0 .. BYTE_MAX

\* A gust has drawn the lowest wind.
C2_Witness == gusted /\ candle.wind = 0

\* C3: a call changes flameprime by at most FLAME_AGILITY, and by less only
\* when the result is clamped at MIN_BRIGHTNESS or MAX_BRIGHTNESS.
C3_BoundedChange ==
  [][ /\ Abs(candle'.flameprime - candle.flameprime) <= FLAME_AGILITY
      /\ Abs(candle'.flameprime - candle.flameprime) < FLAME_AGILITY
           => candle'.flameprime \in {MIN_BRIGHTNESS, MAX_BRIGHTNESS} ]_vars

\* A knock has moved flame from the ceiling to the floor in one call, and
\* flameprime has followed by FLAME_AGILITY only.
C3_Witness ==
  /\ knocked
  /\ scen = 1
  /\ candle.flame = MIN_BRIGHTNESS
  /\ candle.flameprime = MAX_BRIGHTNESS - FLAME_AGILITY

\* C8 as stated: along Scenario A the successive values of flameprime are
\* 220, 200, 180, 160, 140, 120, 100, 100.
C8_ScenarioA_AsStated ==
  scen >= 1 => candle.flameprime = ScenarioA[scen + 1]

\* C8 amended: along Scenario A the successive values of flameprime are
\* 220, 200, 180, 160, 140, 120, 100, 120: the call after the floor is reached
\* finds flame (risen to 106) above flameprime and raises flameprime again.
C8_ScenarioA ==
  scen >= 1 =>
    /\ candle.flameprime = ScenarioAObserved[scen + 1]
    /\ candle.flame = MIN_BRIGHTNESS + scen - 1

\* The last call of Scenario A has been made.
C8_Witness == scen + 1 = Len(ScenarioA) /\ Quiet

\* C9 as stated: on every call without gust or knock flame rises by 1 up to
\* MAX_BRIGHTNESS, and flameprime rises by FLAME_AGILITY up to MAX_BRIGHTNESS
\* and stays there.
C9_ScenarioB_AsStated ==
  [][ Quiet' =>
        /\ candle'.flame = Min(candle.flame + 1, MAX_BRIGHTNESS)
        /\ candle'.flameprime =
             Min(candle.flameprime + FLAME_AGILITY, MAX_BRIGHTNESS) ]_vars

\* C9 amended: on every call without gust or knock flame rises by 1 up to
\* MAX_BRIGHTNESS and then stays; flameprime rises by FLAME_AGILITY (clamped at
\* MAX_BRIGHTNESS) when the risen flame is above it and falls by FLAME_AGILITY
\* (clamped at MIN_BRIGHTNESS) otherwise, so with flame at MAX_BRIGHTNESS it
\* does not stay at MAX_BRIGHTNESS but alternates with
\* MAX_BRIGHTNESS - FLAME_AGILITY.
C9_ScenarioB ==
  [][ Quiet' =>
        /\ candle'.flame = Min(candle.flame + 1, MAX_BRIGHTNESS)
        /\ candle'.flame > candle.flameprime =>
             candle'.flameprime =
               Min(candle.flameprime + FLAME_AGILITY, MAX_BRIGHTNESS)
        /\ candle'.flame <= candle.flameprime =>
             candle'.flameprime =
               Max(candle.flameprime - FLAME_AGILITY, MIN_BRIGHTNESS)
        /\ candle.flame = MAX_BRIGHTNESS /\ candle.flameprime = MAX_BRIGHTNESS
             => candle'.flameprime = MAX_BRIGHTNESS - FLAME_AGILITY
        /\ candle.flame = MAX_BRIGHTNESS
             /\ candle.flameprime = MAX_BRIGHTNESS - FLAME_AGILITY
             => candle'.flameprime = MAX_BRIGHTNESS ]_vars

\* A call without gust or knock has lowered flameprime from MAX_BRIGHTNESS
\* while flame was at MAX_BRIGHTNESS.
C9_Witness ==
  /\ Quiet
  /\ candle.flame = MAX_BRIGHTNESS
  /\ ret = <<MAX_BRIGHTNESS - FLAME_AGILITY>>

\* C15: flame is in [MIN_BRIGHTNESS, MAX_BRIGHTNESS] in every reachable Flame
\* state, and a call lowers flame only by a knock (which draws the new flame
\* from that range); without a knock flame rises by 1 or stays at the ceiling.
C15_FlameInRange ==
  /\ [](candle.flame \in Brightnesses)
  /\ [][ /\ candle'.flame < candle.flame => knocked'
         /\ ~knocked' => candle'.flame = Min(candle.flame + 1, MAX_BRIGHTNESS) ]_vars

\* A knock at baseline wind has lowered flame to the floor.
C15_Witness ==
  /\ knocked
  /\ candle.flame = MIN_BRIGHTNESS
  /\ candle.wind = WIND_BASELINE

\* C16: a call whose gust roll does not reassign wind lowers wind by 1 if it
\* was above WIND_BASELINE and leaves it unchanged otherwise.
C16_WindSettles ==
  [][ ~gusted' =>
        candle'.wind = IF candle.wind > WIND_BASELINE
                         THEN candle.wind - 1 ELSE candle.wind ]_vars

\* A gust set wind below the baseline and a later call without a gust has
\* left it there.
C16_Witness == ~gusted /\ ret # <<>> /\ candle.wind = 0

\* C17: when flame equals flameprime at the filter step the decrease branch is
\* taken: flameprime becomes max(flameprime - FLAME_AGILITY, MIN_BRIGHTNESS),
\* which leaves a flameprime at MIN_BRIGHTNESS unchanged.
C17_TieDecreases ==
  [][ candle'.flame = candle.flameprime =>
        /\ candle'.flameprime =
             Max(candle.flameprime - FLAME_AGILITY, MIN_BRIGHTNESS)
        /\ candle.flameprime = MIN_BRIGHTNESS =>
             candle'.flameprime = candle.flameprime ]_vars

\* flame equalled flameprime at the floor in the last call, and the call
\* returned the floor.
C17_Witness ==
  /\ tied
  /\ candle.flame = MIN_BRIGHTNESS
  /\ ret = <<MIN_BRIGHTNESS>>

\* The values MIN_BRIGHTNESS + k * FLAME_AGILITY up to MAX_BRIGHTNESS.
Quantized ==
  { MIN_BRIGHTNESS + k * FLAME_AGILITY :
      k \in 0 .. ((MAX_BRIGHTNESS - MIN_BRIGHTNESS) \div FLAME_AGILITY) }

\* C20: with the shipped constants flameprime is one of 100, 120, 140, 160,
\* 180, 200, 220 in every reachable Flame state.
C20_Quantized ==
  /\ Quantized = {100, 120, 140, 160, 180, 200, 220}
  /\ candle.flameprime \in Quantized

\* flame holds a value strictly between two of those steps.
C20_Witness ==
  /\ candle.flame \in Brightnesses \ Quantized
  /\ candle.flame = 157

(***************************************************************************)
(* Claims about main(), checked under Spec.                                *)
(***************************************************************************)
\* A tick's brightness loop is running or has run.
InTick == pc \in {"dispatch", "sleep"} \/ (pc = "tick" /\ tick > 0)

\* The brightness loop of the current tick has ended.
TickDone == pc = "sleep" \/ (pc = "tick" /\ tick > 0)

\* The lights of a sequence of commands.
LightsOf(cmds) == [k \in DOMAIN cmds |-> cmds[k].light]

\* C4: in sync mode every tick makes exactly one GetNextFlameBrightness call,
\* on the one shared Flame, and every brightness command of the tick carries
\* the value of that call; every light gets such a command.
C4_SyncSharesOneValue ==
  (sendToHue /\ inSync /\ InTick) =>
    /\ Len(calls) = 1
    /\ calls[1].key = LIGHTS[1]
    /\ calls[1].value = flames[LIGHTS[1]].flameprime
    /\ \A k \in DOMAIN sent :
         sent[k].light = LIGHTS[k] /\ sent[k].bri = calls[1].value
    /\ TickDone => Len(sent) = Len(LIGHTS)

\* In sync mode a later tick has sent both lights the same value, two steps
\* of FLAME_AGILITY below the shared Flame's initial output.
C4_Witness ==
  /\ sendToHue /\ inSync
  /\ pc = "sleep" /\ tick >= 1
  /\ Len(sent) = 2
  /\ sent[1].bri = sent[2].bri
  /\ sent[1].bri = MAX_BRIGHTNESS - 2 * FLAME_AGILITY

\* C5: in independent mode every tick makes exactly one GetNextFlameBrightness
\* call per light, on the light's own Flame, and the brightness command sent
\* to a light carries the value its own Flame returned in that tick.
C5_IndependentOwnValue ==
  (sendToHue /\ ~inSync) =>
    /\ Len(calls) = Len(sent)
    /\ \A k \in DOMAIN sent :
         /\ sent[k].light = LIGHTS[k]
         /\ calls[k].key = sent[k].light
         /\ sent[k].bri = calls[k].value
         /\ calls[k].value = flames[sent[k].light].flameprime
    /\ TickDone => Len(sent) = Len(LIGHTS)

\* In independent mode the two lights have been sent different values in a
\* later tick.
C5_Witness ==
  /\ sendToHue /\ ~inSync
  /\ pc = "sleep" /\ tick >= 1
  /\ Len(sent) = 2
  /\ sent[1].bri # sent[2].bri

\* C6: a failed brightness command does not end the tick or the loop: the
\* pass after a failed command is the next light's, a tick with a failed
\* command still ends with one command per light, and after a failure main
\* can always take its next step (until the explored ticks are used up).
C6_FailureDoesNotStop ==
  /\ (pc = "dispatch" /\ sent # <<>> /\ Failed(sent[Len(sent)].status)) =>
       i = Len(sent) + 1 /\ i <= Len(LIGHTS)
  /\ (TickDone /\ \E k \in DOMAIN sent : Failed(sent[k].status)) =>
       LightsOf(sent) = LIGHTS
  /\ failedTick > 0 =>
       /\ pc \in {"dispatch", "sleep", "tick"}
       /\ (pc = "tick" /\ tick = MaxTicks) \/ ENABLED Next

\* The first light's command failed in the first and in the second tick, and
\* the second light got its command in the second tick all the same.
C6_Witness ==
  /\ failedTick = 1
  /\ tick = 1
  /\ pc = "sleep"
  /\ Len(sent) = 2
  /\ Failed(sent[1].status)

\* C7: with SEND_TO_HUE exactly one power-on command per light is put, in the
\* order of LIGHTS and whatever the statuses, before the first brightness
\* command and before the first tick.
C7_PowerOnFirst ==
  sendToHue =>
    /\ pc = "poweron" =>
         /\ LightsOf(power) = SubSeq(LIGHTS, 1, i - 1)
         /\ sent = <<>> /\ calls = <<>> /\ tick = 0
    /\ pc # "poweron" => LightsOf(power) = LIGHTS

\* The first power-on command failed, the second was put, and the tick loop
\* has sent a brightness command.
C7_Witness ==
  /\ Len(power) = 2
  /\ Failed(power[1].status)
  /\ Len(sent) >= 1

\* The brightness commands of a tick without their statuses.
Values(cmds) == [k \in DOMAIN cmds |-> [light |-> cmds[k].light, bri |-> cmds[k].bri]]

\* C11: two runs of main() with the same draws, whose power-on and brightness
\* commands get statuses chosen independently, are at the same statement with
\* the same Flame states and have sent the same brightness values to the same
\* lights in the tick.
C11_StatusesDoNotMatter ==
  /\ twin.pc = pc
  /\ twin.i = i
  /\ twin.flames = flames
  /\ twin.brightness = brightness
  /\ twin.sent = Values(sent)

\* In independent mode both commands of a later tick have failed in this run,
\* after a failed power-on, and the two lights were sent different values.
C11_Witness ==
  /\ sendToHue /\ ~inSync
  /\ Len(power) = 2 /\ Failed(power[1].status)
  /\ tick >= 1 /\ pc = "sleep"
  /\ Len(sent) = 2
  /\ Failed(sent[1].status) /\ Failed(sent[2].status)
  /\ sent[1].bri # sent[2].bri

\* C12: with SEND_TO_HUE the brightness commands of a tick go to the lights in
\* the order of LIGHTS, one per pass of the loop, whatever the statuses of the
\* earlier ones: none is sent twice and none is skipped, and a finished tick
\* has sent exactly one command per light.
C12_OnePerLightInOrder ==
  sendToHue =>
    /\ LightsOf(sent) = SubSeq(LIGHTS, 1, Len(sent))
    /\ pc = "dispatch" => Len(sent) = i - 1
    /\ TickDone => LightsOf(sent) = LIGHTS

\* A tick has ended in which every command failed.
C12_Witness ==
  /\ pc = "sleep"
  /\ tick >= 1
  /\ LightsOf(sent) = LIGHTS
  /\ \A k \in DOMAIN sent : Failed(sent[k].status)

\* C13: in the run that is not cut off, time.sleep returns infinitely often,
\* and with SEND_TO_HUE every light is sent a brightness command infinitely
\* often, whatever the statuses.
C13_TicksForever ==
  /\ []<><<Sleep>>_vars
  /\ \A k \in DOMAIN LIGHTS :
       []<>(~sendToHue \/ (pc = "dispatch" /\ i = k /\ Len(sent) = k - 1))
  /\ \A k \in DOMAIN LIGHTS :
       []<>(~sendToHue \/ (Len(sent) >= k /\ sent[k].light = LIGHTS[k]))

\* In the run that is not cut off, a tick beyond MaxTicks has ended with a
\* failed command to each light.
C13_Witness ==
  /\ forever
  /\ tick = MaxTicks
  /\ pc = "sleep"
  /\ Len(sent) = Len(LIGHTS)
  /\ \A k \in DOMAIN sent : Failed(sent[k].status)

\* C14: without SEND_TO_HUE no command is put: no power-on command and no
\* brightness command.
C14_DebugSendsNothing ==
  ~sendToHue => (power = <<>> /\ sent = <<>> /\ printed = <<>>)

\* Without SEND_TO_HUE two ticks have run and written their bars.
C14_Witness ==
  /\ ~sendToHue
  /\ tick >= 2
  /\ bar # <<>>
  /\ power = <<>>

\* C18: in a tick no Flame is called twice, and every brightness value sent in
\* the tick is the value of one call of the tick, on a Flame that has not
\* been called since.
C18_OneStepPerTick ==
  /\ \A j, k \in DOMAIN calls : calls[j].key = calls[k].key => j = k
  /\ \A k \in DOMAIN sent :
       \E j \in DOMAIN calls :
         /\ sent[k].bri = calls[j].value
         /\ flames[calls[j].key].flameprime = calls[j].value
         /\ calls[j].key = IF inSync THEN LIGHTS[1] ELSE sent[k].light

\* In independent mode a later tick has called both Flames once and sent
\* both values, which differ.
C18_Witness ==
  /\ ~inSync
  /\ tick >= 2
  /\ Len(calls) = 2 /\ Len(sent) = 2
  /\ calls[1].value # calls[2].value

\* C19: in sync mode, and without SEND_TO_HUE, main creates one Flame per
\* light and advances only the Flame of LIGHTS[0]: every other Flame keeps
\* the state Flame.__init__ gave it.
C19_OtherFlamesUntouched ==
  (inSync \/ ~sendToHue) =>
    /\ pc \in {"tick", "dispatch", "sleep"} => DOMAIN flames = LightIds
    /\ \A l \in DOMAIN flames : l # LIGHTS[1] => flames[l] = NewFlame

\* In sync mode the Flame of the first light has been advanced in three ticks
\* and the Flame of the second light is as created.
C19_Witness ==
  /\ inSync /\ sendToHue
  /\ tick >= 3
  /\ flames[LIGHTS[1]].flame < MAX_BRIGHTNESS
  /\ flames[LIGHTS[2]] = NewFlame

=============================================================================
